---- MODULE Spec2Model ----
(***************************************************************************)
(* molert: a Prometheus alert relay that keeps alert state in Redis.        *)
(*                                                                         *)
(* The model follows src/main.go.  Every Redis command issued through       *)
(* redisClient.Cmd is one atomic step of the goroutine that issues it; the  *)
(* HTTP handlers run in their own goroutines and the scheduler goroutine    *)
(* runs alert() for each tick it takes from the ticker's channel, one scan  *)
(* after another, so the steps of different calls interleave.               *)
(* A command may fail (connection or reply error); a failed command has no  *)
(* effect on the store.  Redis expiry is modelled at whole-second           *)
(* granularity: Tick lets one second pass and deletes every key whose time  *)
(* to live has run out (the whole hash, payload and silence flag).          *)
(***************************************************************************)
EXTENDS Integers, Sequences, FiniteSets, TLC

VARIABLES urls, store, pc, loc, tpIn, tpOut, flaky, age, lapsed, ticks

vars == <<urls, store, pc, loc, tpIn, tpOut, flaky, age, lapsed, ticks>>

\* urls:   the set alert_urls
\* store:  the hash and the time to live of every key
\* pc:     where each goroutine stands; loc: its local variables
\* tpIn, tpOut: an alert and the result of toPayloads on it
\* flaky:  whether the store may fail commands
\* age:    seconds since the ticker last fired (timed specification only)
\* lapsed: the keys on which a silence window has run out and that have not been
\*         silenced since (timed specification only)
\* ticks:  the ticks waiting in ticker.C, whose buffer holds one

(* ------------------------------------------------------------------ *)
(* Configuration flags (scaled down) and the universe of inputs        *)
(* ------------------------------------------------------------------ *)

\* -expiration: freshness window in seconds
expiration == 2

\* -silence_duration: default silence window in seconds
silenceDuration == 3

\* -frequency: seconds between two scans; shorter than the freshness window
freq == 1

\* the explicit positive duration a silence request may carry
GivenDuration == 1

\* longest label string enumerated for toPayloads
MaxLen == 3

Handlers == {"h1", "h2"}

Sched == "sched"

Procs == Handlers \cup {Sched}

\* generator URLs; "" is what a Silence value holds when its body did not parse
Keys == {"", "u1"}

\* a string is a sequence of one-character strings; a label is absent or a string
Absent == [found |-> FALSE, v |-> <<>>]

Label(s) == [found |-> TRUE, v |-> s]

\* type Alert: labels users/channels, annotations summary, generatorURL
MkAlert(url, users, channels, summary) ==
    [generatorURL |-> url, users |-> users, channels |-> channels, summary |-> summary]

AlertOps == MkAlert("u1", Absent, Label(<<"o", ",", " ", "r">>), "disk full")

AlertDm == MkAlert("u1", Label(<<"x">>), Absent, "cpu")

AlertBare == MkAlert("", Absent, Absent, "none")

Alerts == {AlertOps, AlertDm, AlertBare}

Durations == {-1, 0, GivenDuration}

\* bodies POSTed to /silence: a well-formed Silence, or text that does not parse
SilenceBodies ==
    [kind : {"json"}, url : Keys, duration : Durations] \cup
    {[kind |-> "garbage", url |-> "", duration |-> 0]}

(* ------------------------------------------------------------------ *)
(* Strings and Alert.toPayloads                                        *)
(* ------------------------------------------------------------------ *)

\* unicode.IsSpace, restricted to the characters the model uses
IsSpace(c) == c \in {" ", "\t", "\n", "\r"}

RECURSIVE TrimLeft(_)
TrimLeft(s) == IF s # <<>> /\ IsSpace(Head(s)) THEN TrimLeft(Tail(s)) ELSE s

RECURSIVE TrimRight(_)
TrimRight(s) ==
    IF s # <<>> /\ IsSpace(s[Len(s)]) THEN TrimRight(SubSeq(s, 1, Len(s) - 1)) ELSE s

\* strings.TrimSpace
TrimSpace(s) == TrimRight(TrimLeft(s))

\* strings.Index(s, sep) for a one-character sep, 1-based; 0 when absent
Index(s, sep) ==
    IF \E i \in 1..Len(s) : s[i] = sep
    THEN CHOOSE i \in 1..Len(s) : s[i] = sep /\ \A j \in 1..(i - 1) : s[j] # sep
    ELSE 0

\* strings.Split(s, sep): always at least one element, the empty string included
RECURSIVE Split(_, _)
Split(s, sep) ==
    LET i == Index(s, sep)
    IN  IF i = 0 THEN <<s>>
        ELSE <<SubSeq(s, 1, i - 1)>> \o Split(SubSeq(s, i + 1, Len(s)), sep)

\* type Payload, with the attachment's title and title link
MkPayload(channel, a) ==
    [Channel |-> channel, Title |-> a.summary, TitleLink |-> a.generatorURL,
     Duration |-> silenceDuration]

\* a faulty variant: the entry is not trimmed
UserChannelNoTrim(user) == <<"@">> \o user

\* fmt.Sprintf("@%s", strings.TrimSpace(user))
UserChannel(user) == <<"@">> \o TrimSpace(user)

\* strings.TrimSpace(ch)
ChanChannel(ch) == TrimSpace(ch)

UserPayloads(a) ==
    IF a.users.found
    THEN LET es == Split(TrimSpace(a.users.v), ",")
         IN  [i \in 1..Len(es) |-> MkPayload(UserChannel(es[i]), a)]
    ELSE <<>>

ChanPayloads(a) ==
    IF a.channels.found
    THEN LET es == Split(TrimSpace(a.channels.v), ",")
         IN  [i \in 1..Len(es) |-> MkPayload(ChanChannel(es[i]), a)]
    ELSE <<>>

\* func (a *Alert) toPayloads() []Payload
toPayloads(a) == UserPayloads(a) \o ChanPayloads(a)

\* json.Marshal(a): a non-empty string holding the alert
Marshal(a) == <<a>>

\* json.Unmarshal: fails on text that is not a marshalled alert
Unmarshal(data) ==
    IF Len(data) = 1 THEN [err |-> FALSE, a |-> data[1]]
    ELSE [err |-> TRUE, a |-> AlertBare]

\* json.Unmarshal(body, &s) in silenceHandler: s stays the zero Silence on failure
ParseSilence(body) ==
    IF body.kind = "json"
    THEN [err |-> FALSE, URL |-> body.url, Duration |-> body.duration]
    ELSE [err |-> TRUE, URL |-> "", Duration |-> 0]

(* ------------------------------------------------------------------ *)
(* The store: the set alert_urls and one hash with a time to live per  *)
(* key.  A field that is not there reads as the empty string; ttl is   *)
(* -2 for a key that does not exist and -1 for a key without expiry.   *)
(* ------------------------------------------------------------------ *)

NoRecord == [alert |-> <<>>, silence |-> "", ttl |-> -2]

\* HGET url silence, then resp.Str(): a missing field is a nil reply, which Str() rejects
HGetSilence(rec) ==
    IF rec.silence = "" THEN [err |-> TRUE, r |-> ""] ELSE [err |-> FALSE, r |-> rec.silence]

\* HMGET url alert silence, then resp.List(): nil elements come back as ""
HMGet(rec) == <<rec.alert, rec.silence>>

\* HMSET url alert <data> silence false: creates the hash, keeps a running expiry
HMSetAlert(rec, data) ==
    [alert |-> data, silence |-> "false", ttl |-> IF rec.ttl = -2 THEN -1 ELSE rec.ttl]

\* a faulty variant: the flag and the silence window are written by one command
HSetSilenceWithWindow(rec) == [rec EXCEPT !.silence = "true", !.ttl = silenceDuration]

\* a faulty variant: the flag is written by replacing the hash, which drops the payload
HSetSilenceDropsAlert(rec) ==
    [alert |-> <<>>, silence |-> "true", ttl |-> IF rec.ttl = -2 THEN -1 ELSE rec.ttl]

\* HSET url silence true: creates the hash when it is missing, keeps a running expiry
HSetSilence(rec) ==
    [rec EXCEPT !.silence = "true", !.ttl = IF @ = -2 THEN -1 ELSE @]

\* EXPIRE url secs: nothing on a missing key
Expire(rec, secs) ==
    IF rec.ttl = -2 THEN rec
    ELSE IF secs <= 0 THEN NoRecord
    ELSE [rec EXCEPT !.ttl = secs]

\* PERSIST url
Persist(rec) == IF rec.ttl > 0 THEN [rec EXCEPT !.ttl = -1] ELSE rec

\* a faulty variant: expiry deletes the payload and leaves the silence flag behind
AgeKeepsFlag(rec) ==
    IF rec.ttl > 1 THEN [rec EXCEPT !.ttl = @ - 1]
    ELSE IF rec.ttl = 1 THEN [NoRecord EXCEPT !.silence = rec.silence]
    ELSE rec

\* one second passes on one key: the hash is deleted when its time runs out
Age(rec) ==
    IF rec.ttl > 1 THEN [rec EXCEPT !.ttl = @ - 1]
    ELSE IF rec.ttl = 1 THEN NoRecord
    ELSE rec

(* ------------------------------------------------------------------ *)
(* Goroutines: their position and their local variables                *)
(* ------------------------------------------------------------------ *)

\* op: the call in progress; url, a, d: its argument; bad: the body did not parse;
\* r, ttl: the locals of save; err: the last reply was an error (for HGET, a nil
\* reply too); todo, cur, ca, as: the locals of getAlerts;
\* i, out: the loop of alert() and the payloads it has sent;
\* failed: some store command of this call returned an error
Loc0 ==
    [op |-> "none", url |-> "", a |-> AlertBare, d |-> 0, bad |-> FALSE,
     r |-> "", err |-> FALSE, ttl |-> 0,
     todo |-> {}, cur |-> "", ca |-> AlertBare, as |-> <<>>,
     i |-> 1, out |-> <<>>, failed |-> FALSE]

\* the state once init() has connected: an empty store, every goroutine waiting
Boot ==
    /\ urls = {}
    /\ store = [k \in Keys |-> NoRecord]
    /\ pc = [p \in Procs |-> "idle"]
    /\ loc = [p \in Procs |-> Loc0]
    /\ tpOut = [done |-> FALSE, payloads |-> <<>>]
    /\ age = 0
    /\ lapsed = {}
    /\ ticks = 0

\* the store answers every command
Init == Boot /\ tpIn = AlertBare /\ flaky = FALSE

\* the store may fail any command
FlakyInit == Boot /\ tpIn = AlertBare /\ flaky = TRUE

\* the outcomes of one store command: TRUE when the store carries it out
Outcomes == IF flaky THEN BOOLEAN ELSE {TRUE}

Quiet == \A q \in Procs : pc[q] = "idle"

Goto(p, label) == pc' = [pc EXCEPT ![p] = label]

(* ----------------------------- save -------------------------------- *)

\* indexHandler: one alert of the request body is handed to save
StartSave(p, a) ==
    /\ pc[p] = "idle"
    /\ Goto(p, "save_sadd")
    /\ loc' = [loc EXCEPT ![p] = [Loc0 EXCEPT !.op = "save", !.a = a, !.url = a.generatorURL]]
    /\ UNCHANGED <<urls, store, tpIn, tpOut, flaky, age, lapsed, ticks>>

\* SADD alert_urls url
SaveSadd(p) ==
    /\ pc[p] = "save_sadd"
    /\ \E ok \in Outcomes :
         IF ok
         THEN /\ urls' = urls \cup {loc[p].url}
              /\ Goto(p, "save_hget")
              /\ UNCHANGED loc
         ELSE /\ loc' = [loc EXCEPT ![p].failed = TRUE]
              /\ Goto(p, "ret")
              /\ UNCHANGED urls
    /\ UNCHANGED <<store, tpIn, tpOut, flaky, age, lapsed, ticks>>

\* if err == nil && r == "true": the alert is already silenced
SaveSilenced(err, r) == ~err /\ r = "true"

\* HGET url silence
SaveHget(p) ==
    /\ pc[p] = "save_hget"
    /\ \E ok \in Outcomes :
         LET reply == IF ok THEN HGetSilence(store[loc[p].url]) ELSE [err |-> TRUE, r |-> ""]
         IN  /\ loc' = [loc EXCEPT ![p].r = reply.r, ![p].err = reply.err,
                                   ![p].failed = @ \/ ~ok]
             /\ Goto(p, IF SaveSilenced(reply.err, reply.r) THEN "ret" ELSE "save_hmset")
    /\ UNCHANGED <<urls, store, tpIn, tpOut, flaky, age, lapsed, ticks>>

\* HMSET url alert <data> silence false
SaveHmset(p) ==
    /\ pc[p] = "save_hmset"
    /\ \E ok \in Outcomes :
         IF ok
         THEN /\ store' = [store EXCEPT ![loc[p].url] = HMSetAlert(@, Marshal(loc[p].a))]
              /\ loc' = [loc EXCEPT ![p].err = FALSE]
              /\ Goto(p, "save_ttl")
         ELSE /\ loc' = [loc EXCEPT ![p].err = TRUE, ![p].failed = TRUE]
              /\ Goto(p, "ret")
              /\ UNCHANGED store
    /\ UNCHANGED <<urls, tpIn, tpOut, flaky, age, lapsed, ticks>>

\* a faulty variant: the running expiry is never recognised, so every re-fire sets it again
SaveTtlSetNever(err, ttl) == FALSE

\* if err == nil && ttl >= 0: an expiry is already running
SaveTtlSet(err, ttl) == ~err /\ ttl >= 0

\* TTL url
SaveTtl(p) ==
    /\ pc[p] = "save_ttl"
    /\ \E ok \in Outcomes :
         LET ttl == IF ok THEN store[loc[p].url].ttl ELSE 0
         IN  /\ loc' = [loc EXCEPT ![p].ttl = ttl, ![p].err = ~ok, ![p].failed = @ \/ ~ok]
             /\ Goto(p, IF SaveTtlSet(~ok, ttl) THEN "ret" ELSE "save_expire")
    /\ UNCHANGED <<urls, store, tpIn, tpOut, flaky, age, lapsed, ticks>>

\* EXPIRE url *expiration
SaveExpire(p) ==
    /\ pc[p] = "save_expire"
    /\ \E ok \in Outcomes :
         IF ok
         THEN /\ store' = [store EXCEPT ![loc[p].url] = Expire(@, expiration)]
              /\ loc' = [loc EXCEPT ![p].err = FALSE]
         ELSE /\ loc' = [loc EXCEPT ![p].err = TRUE, ![p].failed = TRUE]
              /\ UNCHANGED store
    /\ Goto(p, "ret")
    /\ UNCHANGED <<urls, tpIn, tpOut, flaky, age, lapsed, ticks>>

(* ---------------------------- silence ------------------------------ *)

\* silenceHandler: the body is parsed and s.silence() is called whatever the outcome
StartSilence(p, body) ==
    /\ pc[p] = "idle"
    /\ LET s == ParseSilence(body)
       IN  loc' = [loc EXCEPT ![p] = [Loc0 EXCEPT !.op = "silence", !.url = s.URL,
                                                  !.d = s.Duration, !.bad = s.err]]
    /\ Goto(p, "sil_hset")
    /\ UNCHANGED <<urls, store, tpIn, tpOut, flaky, age, lapsed, ticks>>

\* HSET url silence true
SilHset(p) ==
    /\ pc[p] = "sil_hset"
    /\ \E ok \in Outcomes :
         IF ok
         THEN /\ store' = [store EXCEPT ![loc[p].url] = HSetSilence(@)]
              /\ lapsed' = lapsed \ {loc[p].url}
              /\ Goto(p, "sil_ttl")
              /\ UNCHANGED loc
         ELSE /\ loc' = [loc EXCEPT ![p].err = TRUE, ![p].failed = TRUE]
              /\ Goto(p, "ret")
              /\ UNCHANGED <<store, lapsed>>
    /\ UNCHANGED <<urls, tpIn, tpOut, flaky, age, ticks>>

\* a faulty variant: a negative duration returns without PERSIST
SilenceTtlNoPersist(rec, d) ==
    IF d < 0 THEN rec
    ELSE IF d = 0 THEN Expire(rec, silenceDuration)
    ELSE Expire(rec, d)

\* a faulty variant: the given duration is ignored in favour of the default
SilenceTtlDefaultOnly(rec, d) ==
    IF d < 0 THEN Persist(rec)
    ELSE Expire(rec, silenceDuration)

\* the expiry command silence() issues for a duration: PERSIST below zero,
\* EXPIRE with the default at zero, EXPIRE with the duration above
SilenceTtl(rec, d) ==
    IF d < 0 THEN Persist(rec)
    ELSE IF d = 0 THEN Expire(rec, silenceDuration)
    ELSE Expire(rec, d)

\* PERSIST url / EXPIRE url secs; the reply is not looked at
SilTtl(p) ==
    /\ pc[p] = "sil_ttl"
    /\ \E ok \in Outcomes :
         IF ok
         THEN /\ store' = [store EXCEPT ![loc[p].url] = SilenceTtl(@, loc[p].d)]
              /\ UNCHANGED loc
         ELSE /\ loc' = [loc EXCEPT ![p].failed = TRUE]
              /\ UNCHANGED store
    /\ Goto(p, "ret")
    /\ UNCHANGED <<urls, tpIn, tpOut, flaky, age, lapsed, ticks>>

(* --------------------------- getAlerts ----------------------------- *)

\* listHandler calls getAlerts
StartList(p) ==
    /\ pc[p] = "idle"
    /\ loc' = [loc EXCEPT ![p] = [Loc0 EXCEPT !.op = "list"]]
    /\ Goto(p, "ga_smembers")
    /\ UNCHANGED <<urls, store, tpIn, tpOut, flaky, age, lapsed, ticks>>

\* time.NewTicker: a period ends and a tick is put in ticker.C; the channel holds one
\* tick, and a tick that finds it full is dropped
TickerFires ==
    /\ ticks' = 1
    /\ age' = 0
    /\ UNCHANGED <<urls, store, pc, loc, tpIn, tpOut, flaky, lapsed>>

\* a faulty variant: a tick starts a scan whether or not the previous one has returned
StartScanOnEveryTick ==
    /\ ticks = 1
    /\ ticks' = 0
    /\ loc' = [loc EXCEPT ![Sched] = [Loc0 EXCEPT !.op = "scan"]]
    /\ Goto(Sched, "ga_smembers")
    /\ UNCHANGED <<urls, store, tpIn, tpOut, flaky, age, lapsed>>

\* for range ticker.C { alert() }: the scheduler goroutine, back from the previous
\* scan, takes the tick that waits in the channel and calls alert()
StartScan ==
    /\ pc[Sched] = "idle"
    /\ ticks = 1
    /\ ticks' = 0
    /\ loc' = [loc EXCEPT ![Sched] = [Loc0 EXCEPT !.op = "scan"]]
    /\ Goto(Sched, "ga_smembers")
    /\ UNCHANGED <<urls, store, tpIn, tpOut, flaky, age, lapsed>>

\* where a goroutine goes when the loop over urls has nothing left: getAlerts returns,
\* to listHandler or into the loop of alert()
AfterLoop(op, as) == IF op = "scan" /\ as # <<>> THEN "notify" ELSE "ret"

\* the end of one iteration of the loop over urls
Continue(op, todo, as) == IF todo = {} THEN AfterLoop(op, as) ELSE "ga_hmget"

\* SMEMBERS alert_urls
GaSmembers(p) ==
    /\ pc[p] = "ga_smembers"
    /\ \E ok \in Outcomes :
         LET todo == IF ok THEN urls ELSE {}
         IN  /\ loc' = [loc EXCEPT ![p].todo = todo, ![p].err = ~ok, ![p].failed = @ \/ ~ok]
             /\ Goto(p, Continue(loc[p].op, todo, <<>>))
    /\ UNCHANGED <<urls, store, tpIn, tpOut, flaky, age, lapsed, ticks>>

\* a faulty variant: an empty payload is not recognised
PayloadEmptyNever(result) == FALSE

\* result[0] == "": the alert expired, the url is to leave alert_urls
PayloadEmpty(result) == result[1] = <<>>

\* result[1] != "true"
NotSilenced(result) == result[2] # "true"

\* HMGET url alert silence, for the next url of the list
GaHmget(p) ==
    /\ pc[p] = "ga_hmget"
    /\ \E u \in loc[p].todo, ok \in Outcomes :
         LET todo   == loc[p].todo \ {u}
             result == HMGet(store[u])
             parsed == Unmarshal(result[1])
             entry  == [Alert |-> parsed.a, TTL |-> 0]
             l1     == [loc[p] EXCEPT !.todo = todo, !.cur = u, !.err = ~ok]
         IN  IF ~ok
             THEN /\ loc' = [loc EXCEPT ![p] = [l1 EXCEPT !.failed = TRUE]]
                  /\ Goto(p, Continue(l1.op, todo, l1.as))
             ELSE IF PayloadEmpty(result)
             THEN /\ loc' = [loc EXCEPT ![p] = l1]
                  /\ Goto(p, "ga_srem")
             ELSE IF parsed.err
             THEN /\ loc' = [loc EXCEPT ![p] = l1]
                  /\ Goto(p, Continue(l1.op, todo, l1.as))
             ELSE IF NotSilenced(result)
             THEN /\ loc' = [loc EXCEPT ![p] = [l1 EXCEPT !.as = Append(@, entry)]]
                  /\ Goto(p, Continue(l1.op, todo, Append(l1.as, entry)))
             ELSE /\ loc' = [loc EXCEPT ![p] = [l1 EXCEPT !.ca = parsed.a]]
                  /\ Goto(p, "ga_ttl")
    /\ UNCHANGED <<urls, store, tpIn, tpOut, flaky, age, lapsed, ticks>>

\* SREM alert_urls url; the reply is only logged
GaSrem(p) ==
    /\ pc[p] = "ga_srem"
    /\ \E ok \in Outcomes :
         IF ok
         THEN /\ urls' = urls \ {loc[p].cur}
              /\ loc' = [loc EXCEPT ![p].err = FALSE]
         ELSE /\ loc' = [loc EXCEPT ![p].err = TRUE, ![p].failed = TRUE]
              /\ UNCHANGED urls
    /\ Goto(p, Continue(loc[p].op, loc[p].todo, loc[p].as))
    /\ UNCHANGED <<store, tpIn, tpOut, flaky, age, lapsed, ticks>>

\* TTL url, for a silenced alert
GaTtl(p) ==
    /\ pc[p] = "ga_ttl"
    /\ \E ok \in Outcomes :
         LET as == IF ok
                   THEN Append(loc[p].as, [Alert |-> loc[p].ca, TTL |-> store[loc[p].cur].ttl])
                   ELSE loc[p].as
         IN  /\ loc' = [loc EXCEPT ![p].as = as, ![p].err = ~ok, ![p].failed = @ \/ ~ok]
             /\ Goto(p, Continue(loc[p].op, loc[p].todo, as))
    /\ UNCHANGED <<urls, store, tpIn, tpOut, flaky, age, lapsed, ticks>>

(* ----------------------------- alert ------------------------------- *)

\* a faulty variant: entries with seconds of silence left are notified too
EligibleNonNegative(entry) == entry.TTL >= 0

\* if alert.TTL == 0: the entry is notified
Eligible(entry) == entry.TTL = 0

\* one iteration of the loop of alert(): the payloads of an eligible entry are sent
Notify(p) ==
    /\ pc[p] = "notify"
    /\ LET entry == loc[p].as[loc[p].i]
           sent  == IF Eligible(entry) THEN toPayloads(entry.Alert) ELSE <<>>
       IN  /\ loc' = [loc EXCEPT ![p].i = @ + 1, ![p].out = @ \o sent]
           /\ Goto(p, IF loc[p].i = Len(loc[p].as) THEN "ret" ELSE "notify")
    /\ UNCHANGED <<urls, store, tpIn, tpOut, flaky, age, lapsed, ticks>>

\* the call returns: a handler writes its answer, the scheduler waits for the next tick
Return(p) ==
    /\ pc[p] = "ret"
    /\ Goto(p, "idle")
    /\ loc' = [loc EXCEPT ![p] = Loc0]
    /\ UNCHANGED <<urls, store, tpIn, tpOut, flaky, age, lapsed, ticks>>

(* --------------------------- the store's clock --------------------- *)

Tick ==
    /\ \E k \in Keys : store[k].ttl > 0
    /\ store' = [k \in Keys |-> Age(store[k])]
    /\ UNCHANGED <<urls, pc, loc, tpIn, tpOut, flaky, age, lapsed, ticks>>

(* --------------------------- specifications ------------------------ *)

\* the requests that arrive, for alerts and silence bodies drawn from the given sets
\* and served by the given handler goroutines
Requests(hs, alerts, bodies) ==
    \/ \E p \in hs, a \in alerts : StartSave(p, a)
    \/ \E p \in hs, body \in bodies : StartSilence(p, body)
    \/ \E p \in hs : StartList(p)

\* a request arrives or the scheduler starts a scan
Start(hs, alerts, bodies) ==
    \/ Requests(hs, alerts, bodies)
    \/ StartScan

\* the requests about one alert key, on which concurrent calls contend
HotAlerts == {AlertOps}

HotBodies == {b \in SilenceBodies : b.kind = "json" /\ b.url = "u1"}

Step(p) ==
    \/ SaveSadd(p)
    \/ SaveHget(p)
    \/ SaveHmset(p)
    \/ SaveTtl(p)
    \/ SaveExpire(p)
    \/ SilHset(p)
    \/ SilTtl(p)
    \/ GaSmembers(p)
    \/ GaHmget(p)
    \/ GaSrem(p)
    \/ GaTtl(p)
    \/ Notify(p)
    \/ Return(p)

Next ==
    \/ Start(Handlers, HotAlerts, HotBodies)
    \/ \E p \in Procs : Step(p)
    \/ Tick
    \/ TickerFires

\* handlers and the scheduler run concurrently
Spec == Init /\ [][Next]_vars

SeqStart == Quiet /\ Start(Handlers, Alerts, SilenceBodies)

SeqNext ==
    \/ SeqStart
    \/ \E p \in Procs : Step(p)
    \/ Tick
    \/ TickerFires

\* one call at a time; the store's clock still runs between its commands
SeqSpec == FlakyInit /\ [][SeqNext]_vars

\* the goroutines of the timed specification: one handler and the scheduler
TimedProcs == {"h1", Sched}

\* one second passes, in real time: a scan takes well under a second, so the next
\* second does not begin while a scan is due or under way
TimedTick ==
    /\ age < freq
    /\ pc[Sched] = "idle"
    /\ ticks = 0
    /\ store' = [k \in Keys |-> Age(store[k])]
    /\ age' = age + 1
    /\ lapsed' = lapsed \cup {k \in Keys : store[k].silence = "true" /\ store[k].ttl = 1}
    /\ UNCHANGED <<urls, pc, loc, tpIn, tpOut, flaky, ticks>>

\* the ticker fires freq seconds after it last fired
TimedTickerFires == age = freq /\ TickerFires

TimedNext ==
    \/ Requests({"h1"}, HotAlerts, HotBodies)
    \/ TimedTickerFires
    \/ StartScan
    \/ \E p \in TimedProcs : Step(p)
    \/ TimedTick

\* time passes, the ticker keeps firing, every goroutine that has a command to issue
\* issues it, and the store answers every command
TimedSpec ==
    /\ Init
    /\ [][TimedNext]_vars
    /\ WF_vars(TimedTick)
    /\ WF_vars(TimedTickerFires)
    /\ WF_vars(StartScan)
    /\ \A p \in TimedProcs : WF_vars(Step(p))

\* the characters of the label strings enumerated for toPayloads
LabelChars == {"a", " ", ","}

LabelStrings == UNION {[1..n -> LabelChars] : n \in 0..MaxLen}

LabelValues == {Absent} \cup {Label(v) : v \in LabelStrings}

PayloadInit ==
    /\ Boot
    /\ flaky = FALSE
    /\ \E u \in LabelValues, c \in LabelValues, t \in {"disk full", "cpu"} :
          tpIn = MkAlert("u1", u, c, t)

\* a.toPayloads() on the alert at hand
Convert ==
    /\ ~tpOut.done
    /\ tpOut' = [done |-> TRUE, payloads |-> toPayloads(tpIn)]
    /\ UNCHANGED <<urls, store, pc, loc, tpIn, flaky, age, lapsed, ticks>>

\* toPayloads applied to every alert whose labels are strings of at most MaxLen characters
PayloadSpec == PayloadInit /\ [][Convert]_vars

(* ------------------------------------------------------------------ *)
(* Properties                                                          *)
(* ------------------------------------------------------------------ *)

\* goroutine p takes a step of save / of silence
SaveStep(p) == loc[p].op = "save" /\ pc[p] # "ret" /\ pc'[p] # pc[p]

SilenceStep(p) == loc[p].op = "silence" /\ pc[p] # "ret" /\ pc'[p] # pc[p]

\* goroutine p's call ends with this step, no store command of the call having failed
Completes(p, op) ==
    /\ loc[p].op = op
    /\ pc[p] # "ret"
    /\ pc'[p] = "ret"
    /\ ~loc'[p].failed

\* goroutine p has returned from a call in which no store command failed
Returned(p, op) == pc[p] = "ret" /\ loc[p].op = op /\ ~loc[p].failed

\* the record a first upsert of alert a leaves
FreshRecord(a) == [alert |-> Marshal(a), silence |-> "false", ttl |-> expiration]

\* C1: an upsert that completes without store error on a key that had no record
\* (its HGET found no silence field) leaves payload A, silence "false" and a time to
\* live of exactly the configured expiration; and no step of an upsert without
\* store error changes the time to live of an unsilenced key whose expiry is running.
C1_UpsertFreshness ==
    [][\A p \in Handlers :
         /\ (Completes(p, "save") /\ loc'[p].r = "")
                => store'[loc[p].url] = FreshRecord(loc[p].a)
         /\ (SaveStep(p) /\ ~loc'[p].failed
               /\ store[loc[p].url].ttl > 0 /\ store[loc[p].url].silence # "true")
                => store'[loc[p].url].ttl = store[loc[p].url].ttl]_vars

\* C1 witness: a re-fire has returned, its payload stored, and the expiry it found
\* running, already below the configured expiration, is still what the key has.
C1_Witness ==
    \E p \in Handlers :
        /\ Returned(p, "save")
        /\ loc[p].r = "false"
        /\ loc[p].ttl > 0
        /\ loc[p].ttl < expiration
        /\ store[loc[p].url] = [alert |-> Marshal(loc[p].a), silence |-> "false", ttl |-> loc[p].ttl]

\* C2: no step of an upsert changes the record (payload, silence flag, time to
\* live) of a key whose stored silence flag is "true".
C2_SilencedUpsertNoop ==
    [][\A p \in Handlers :
         (SaveStep(p) /\ store[loc[p].url].silence = "true")
            => store'[loc[p].url] = store[loc[p].url]]_vars

\* C3 as claimed: a silence request with a negative duration that completes without
\* store error leaves the silence flag "true" and no time to live.
C3_AsClaimed ==
    [][\A p \in Handlers :
         (Completes(p, "silence") /\ loc[p].d < 0)
            => /\ store'[loc[p].url].silence = "true"
               /\ store'[loc[p].url].ttl = -1]_vars

\* C3 amended: such a request leaves the key without a running expiry; the flag is
\* "true" and the key persists unless the record's previous expiry ran out between
\* the HSET and the PERSIST, in which case the key has no record.
C3_SilenceForever ==
    [][\A p \in Handlers :
         (Completes(p, "silence") /\ loc[p].d < 0)
            => IF store[loc[p].url].ttl # -2
               THEN /\ store'[loc[p].url].silence = "true"
                    /\ store'[loc[p].url].ttl = -1
                    /\ store'[loc[p].url].alert = store[loc[p].url].alert
               ELSE store'[loc[p].url] = NoRecord]_vars

\* C3 witness: a silence-forever request has returned on a key that holds an alert;
\* the flag is "true" and the key has no expiry.
C3_Witness ==
    \E p \in Handlers :
        /\ Returned(p, "silence")
        /\ loc[p].d < 0
        /\ store[loc[p].url].alert # <<>>
        /\ store[loc[p].url].silence = "true"
        /\ store[loc[p].url].ttl = -1

\* the time to live a silence request with duration d >= 0 asks for
Window(d) == IF d = 0 THEN silenceDuration ELSE d

\* C4 as claimed: a silence request with duration d >= 0 that completes without
\* store error leaves the flag "true" and a time to live of exactly the default
\* silence duration (d = 0) or d (d > 0).
C4_AsClaimed ==
    [][\A p \in Handlers :
         (Completes(p, "silence") /\ loc[p].d >= 0)
            => /\ store'[loc[p].url].silence = "true"
               /\ store'[loc[p].url].ttl = Window(loc[p].d)]_vars

\* C4 amended: the same, unless the record's previous expiry ran out between the
\* HSET and the EXPIRE, in which case the key has no record.
C4_SilenceWindow ==
    [][\A p \in Handlers :
         (Completes(p, "silence") /\ loc[p].d >= 0)
            => IF store[loc[p].url].ttl # -2
               THEN /\ store'[loc[p].url].silence = "true"
                    /\ store'[loc[p].url].ttl = Window(loc[p].d)
                    /\ store'[loc[p].url].alert = store[loc[p].url].alert
               ELSE store'[loc[p].url] = NoRecord]_vars

\* C4 witness: a silence request with the default duration has returned on a key that
\* holds an alert; the flag is "true" and the expiry is the default silence duration,
\* which is longer than any freshness expiry.
C4_Witness ==
    \E p \in Handlers :
        /\ Returned(p, "silence")
        /\ loc[p].d = 0
        /\ store[loc[p].url].alert # <<>>
        /\ store[loc[p].url].silence = "true"
        /\ store[loc[p].url].ttl = silenceDuration
        /\ silenceDuration > expiration

\* goroutine p, in getAlerts, issues the HMGET for the next url and the store answers
HmgetAnswered(p) ==
    /\ pc[p] = "ga_hmget"
    /\ loc'[p].todo # loc[p].todo
    /\ ~loc'[p].err

\* goroutine p, in getAlerts, issues the SREM and the store carries it out
SremDone(p) ==
    /\ pc[p] = "ga_srem"
    /\ pc'[p] # "ga_srem"
    /\ ~loc'[p].err

\* the urls of the entries of a list
ListedUrls(as) == {as[i].Alert.generatorURL : i \in 1..Len(as)}

\* C5: in getAlerts, whoever calls it, a url whose payload field is read as empty is
\* not appended to the result, the call's next command is the SREM of that url, and
\* once the store has carried it out the url is no longer in alert_urls; the result
\* never lists a url for which the call is about to issue that SREM.
C5_EmptyPayloadPruned ==
    [][\A p \in Procs :
         /\ (HmgetAnswered(p) /\ store[loc'[p].cur].alert = <<>>)
                => /\ pc'[p] = "ga_srem"
                   /\ loc'[p].as = loc[p].as
                   /\ loc'[p].cur \notin ListedUrls(loc'[p].as)
         /\ SremDone(p)
                => /\ loc[p].cur \notin urls'
                   /\ loc'[p].as = loc[p].as
                   /\ loc[p].cur \notin ListedUrls(loc'[p].as)]_vars

\* C5 witness: a list call has returned without store error after looking at u1, which
\* had no payload: u1 is not in the result and has left alert_urls.
C5_Witness ==
    \E p \in Procs :
        /\ pc[p] = "ret"
        /\ loc[p].op \in {"list", "scan"}
        /\ ~loc[p].failed
        /\ loc[p].cur = "u1"
        /\ store["u1"].alert = <<>>
        /\ "u1" \notin ListedUrls(loc[p].as)
        /\ "u1" \notin urls

Commas(s) == {i \in 1..Len(s) : s[i] = ","}

\* the number of comma-separated entries of a label, none when the label is absent
EntryCount(label) == IF label.found THEN Cardinality(Commas(label.v)) + 1 ELSE 0

\* the j-th comma-separated entry of a string: what lies between its (j-1)-th and
\* its j-th comma
Entry(s, j) ==
    LET before == {i \in Commas(s) : Cardinality({c \in Commas(s) : c <= i}) = j - 1}
        after  == {i \in Commas(s) : Cardinality({c \in Commas(s) : c <= i}) = j}
        from   == IF before = {} THEN 1 ELSE (CHOOSE i \in before : TRUE) + 1
        to     == IF after = {} THEN Len(s) ELSE (CHOOSE i \in after : TRUE) - 1
    IN  SubSeq(s, from, to)

\* a string without its leading and trailing whitespace
Trimmed(e) ==
    LET ink == {i \in 1..Len(e) : ~IsSpace(e[i])}
    IN  IF ink = {} THEN <<>>
        ELSE SubSeq(e, CHOOSE i \in ink : \A j \in ink : i <= j,
                       CHOOSE i \in ink : \A j \in ink : j <= i)

\* C9: toPayloads(A) is one payload per comma-separated entry of labels.users,
\* addressed to "@" followed by the trimmed entry, then one per entry of
\* labels.channels, addressed to the trimmed entry; an absent label gives none, and
\* every payload carries the alert's summary as its title.
C9_PayloadsPerRecipient ==
    tpOut.done =>
        LET ps == tpOut.payloads
            nu == EntryCount(tpIn.users)
            nc == EntryCount(tpIn.channels)
        IN  /\ Len(ps) = nu + nc
            /\ \A j \in 1..nu : ps[j].Channel = <<"@">> \o Trimmed(Entry(tpIn.users.v, j))
            /\ \A j \in 1..nc : ps[nu + j].Channel = Trimmed(Entry(tpIn.channels.v, j))
            /\ \A i \in 1..Len(ps) : ps[i].Title = tpIn.summary
            /\ (~tpIn.users.found /\ ~tpIn.channels.found) => ps = <<>>

\* C9 witness: users "a, " and channels " a" have been converted to the three payloads
\* "@a", "@" and "a".
C9_Witness ==
    /\ tpOut.done
    /\ tpIn.users = Label(<<"a", ",", " ">>)
    /\ tpIn.channels = Label(<<" ", "a">>)
    /\ [i \in 1..Len(tpOut.payloads) |-> tpOut.payloads[i].Channel]
          = << <<"@", "a">>, <<"@">>, <<"a">> >>

\* the expiry that is running on a record, 0 when none is
Expiry(rec) == IF rec.ttl > 0 THEN rec.ttl ELSE 0

\* C10: no step of a silence request or of an upsert writes both the silence flag and
\* the expiry of a key: the flag and the expiry of one call reach the store in separate
\* commands, between which the commands of another call may fall.
C10_FlagAndExpirySeparate ==
    [][\A p \in Handlers :
         (SaveStep(p) \/ SilenceStep(p))
            => ~(/\ store'[loc[p].url].silence # store[loc[p].url].silence
                 /\ Expiry(store'[loc[p].url]) # Expiry(store[loc[p].url]))]_vars

\* C10 witness: a silence-forever request and an upsert of the same key have both
\* returned without store error; the flag is "true", as the silence request wrote it,
\* and the expiry is the freshness expiration the upsert set after the PERSIST.
C10_Witness ==
    \E p \in Handlers, q \in Handlers :
        /\ Returned(p, "save")
        /\ Returned(q, "silence")
        /\ loc[p].url = loc[q].url
        /\ loc[q].d < 0
        /\ store[loc[p].url].silence = "true"
        /\ store[loc[p].url].ttl = expiration

\* the other outcome of C10: both calls have returned without store error, the flag is
\* "false", as the upsert wrote it, and the key has the silence window (or, after a
\* PERSIST, no expiry) that the silence request set.
C10_WitnessUnsilenced ==
    \E p \in Handlers, q \in Handlers :
        /\ Returned(p, "save")
        /\ Returned(q, "silence")
        /\ loc[p].url = loc[q].url
        /\ store[loc[p].url].silence = "false"
        /\ loc[p].ttl > 0
        /\ store[loc[p].url].ttl = IF loc[q].d < 0 THEN -1 ELSE Window(loc[q].d)

\* no upsert of key k is in progress
NoUpsert(k) == \A p \in Procs : ~(loc[p].op = "save" /\ loc[p].url = k)

\* no silence request on key k is in progress
NoSilence(k) == \A p \in Procs : ~(loc[p].op = "silence" /\ loc[p].url = k)

\* key k is unknown and has no record
Gone(k) == k \notin urls /\ store[k] = NoRecord

UpsertArrives(k) == \E p \in Procs : pc[p] = "save_sadd" /\ loc[p].url = k

\* key k is silenced and its silence window is running
SilencedFinite(k) == store[k].silence = "true" /\ store[k].ttl > 0

\* the scan under way has sent a payload for key k
Sent(k) ==
    \E i \in 1..Len(loc[Sched].out) : loc[Sched].out[i].TitleLink = k

\* C8: if upserts of u1 keep arriving then, from any moment at which u1 is silenced
\* with a window running and after which no further silence request is made, a later
\* scan finds the flag "false" again and sends the alert's payloads.
C8_FiresAgain ==
    []<>UpsertArrives("u1")
        => []((SilencedFinite("u1") /\ []NoSilence("u1")) => <>Sent("u1"))

\* C8 witness: the silence window of u1 has run out, u1 has not been silenced since,
\* an upsert has written the flag "false" and the scan under way has sent for u1.
C8_Witness ==
    /\ "u1" \in lapsed
    /\ store["u1"].silence = "false"
    /\ Sent("u1")

\* some list or scan call has read a payload as empty and has not yet issued its SREM
PruneUnderWay == \E p \in Procs : pc[p] = "ga_srem"

\* C11: in every state in which no list or scan call stands between its payload read
\* and its set removal, every key whose record holds a payload is in alert_urls.
C11_KnownKeys ==
    ~PruneUnderWay => \A k \in Keys : store[k].alert # <<>> => k \in urls

\* a scan is under way: the scheduler goroutine is inside alert()
ScanUnderWay == pc[Sched] \notin {"idle", "ret"}

\* a tick is put in the empty ticker channel
TickArrives == ticks = 0 /\ ticks' = 1

\* the scheduler goroutine enters alert()
ScanStarts == pc'[Sched] = "ga_smembers" /\ (pc[Sched] # "ga_smembers" \/ ticks' < ticks)

\* C12 as claimed: a scan starts on every tick even when the previous scan has not
\* finished: whenever a tick waits in the ticker channel, a scan can start.
C12_AsClaimed == (ticks = 1) => ENABLED StartScan

\* C12 amended: scans run one after another: a tick that arrives while a scan is under
\* way waits in the channel and leaves that scan as it is, and a scan starts only when
\* the scheduler goroutine is back from the previous one and takes the waiting tick.
C12_ScansInTurn ==
    [][/\ (TickArrives /\ ScanUnderWay) => (pc' = pc /\ loc' = loc)
       /\ ScanStarts => (pc[Sched] = "idle" /\ ticks = 1 /\ ticks' = 0)]_vars

\* C12 witness: a tick has arrived while a scan that has already listed an alert is
\* still under way; the tick waits.
C12_Witness ==
    /\ ticks = 1
    /\ ScanUnderWay
    /\ loc[Sched].as # <<>>

\* the clock advances and the silence window of key k, in its last second, runs out
WindowElapses(k) ==
    /\ store[k].silence = "true"
    /\ store[k].ttl = 1
    /\ pc' = pc
    /\ loc' = loc
    /\ store'[k] # store[k]

\* C13 as claimed: when the silence window of a key elapses, its stored silence flag
\* is still "true".
C13_AsClaimed ==
    [][\A k \in Keys : WindowElapses(k) => store'[k].silence = "true"]_vars

\* C13 amended: when the silence window of a key elapses the store deletes the whole
\* record, the flag with it; and the flag is written "false" only by the HMSET of an
\* upsert of that key.
C13_FlagGoesWithRecord ==
    [][\A k \in Keys :
         /\ WindowElapses(k) => store'[k] = NoRecord
         /\ (store'[k].silence = "false" /\ store[k].silence # "false")
                => \E p \in Procs :
                      /\ pc[p] = "save_hmset"
                      /\ pc'[p] = "save_ttl"
                      /\ loc[p].url = k]_vars

\* C13 witness: the silence window of u1 has run out and u1 has not been silenced
\* since: no flag and no record are left, and an upsert that has read the flag as
\* absent is about to write the alert.
C13_Witness ==
    /\ "u1" \in lapsed
    /\ store["u1"] = NoRecord
    /\ \E p \in Procs : pc[p] = "save_hmset" /\ loc[p].url = "u1" /\ loc[p].r = ""

\* goroutine p takes a step of the notification loop of alert()
NotifyStep(p) == pc[p] = "notify" /\ loc'[p] # loc[p]

\* C14: no step of a silence request removes a key from alert_urls or changes a stored
\* payload; no step of the notification loop changes the store or alert_urls; and a
\* key leaves alert_urls only by the SREM of a list or scan call that stands at the
\* removal of that key, where it arrives only after reading the key's payload as empty.
C14_LazyRemovalOnly ==
    [][/\ \A p \in Procs :
            SilenceStep(p) => /\ urls \subseteq urls'
                              /\ \A k \in Keys : store'[k].alert = store[k].alert
       /\ \A p \in Procs : NotifyStep(p) => (store' = store /\ urls' = urls)
       /\ \A k \in urls \ urls' :
            \E p \in Procs : /\ pc[p] = "ga_srem"
                             /\ pc'[p] # "ga_srem"
                             /\ loc[p].cur = k
                             /\ loc[p].op \in {"list", "scan"}
       /\ \A p \in Procs : (pc'[p] = "ga_srem" /\ pc[p] # "ga_srem")
                              => store[loc'[p].cur].alert = <<>>]_vars

\* C14 witness: a silence request has returned on a known key that holds an alert, and
\* a scan has since sent nothing for it: the key is still known and holds its alert.
C14_Witness ==
    /\ \E p \in Handlers : Returned(p, "silence") /\ loc[p].url = "u1"
    /\ "u1" \in urls
    /\ store["u1"].alert # <<>>
    /\ store["u1"].silence = "true"
    /\ pc[Sched] = "ret"
    /\ loc[Sched].cur = "u1"
    /\ loc[Sched].out = <<>>

\* key k holds an alert and has been silenced without expiry, by a silence request
\* that has returned
SilencedForever(k) ==
    /\ store[k].alert # <<>>
    /\ store[k].silence = "true"
    /\ store[k].ttl = -1
    /\ NoSilence(k)

\* the payloads goroutine p sends in this step
NewlySent(p) == SubSeq(loc'[p].out, Len(loc[p].out) + 1, Len(loc'[p].out))

\* C15: while a key that holds an alert is silenced without expiry and no silence
\* request is being made on it, no step of an upsert changes its record, no scan sends
\* a payload for it, and a list or scan call that reads its time to live reports a
\* negative one.
C15_SilencedForeverStays ==
    [][\A k \in Keys : SilencedForever(k) =>
         /\ \A p \in Procs : (SaveStep(p) /\ loc[p].url = k) => store'[k] = store[k]
         /\ \A p \in Procs : NotifyStep(p) =>
                \A i \in 1..Len(NewlySent(p)) : NewlySent(p)[i].TitleLink # k
         /\ \A p \in Procs :
                (pc[p] = "ga_ttl" /\ loc[p].cur = k /\ Len(loc'[p].as) > Len(loc[p].as))
                    => loc'[p].as[Len(loc'[p].as)].TTL < 0]_vars

\* C15 witness: u1 is silenced without expiry and a scan has returned without store
\* error, having listed u1 with a time to live of -1 and sent nothing.
C15_Witness ==
    /\ SilencedForever("u1")
    /\ pc[Sched] = "ret"
    /\ ~loc[Sched].failed
    /\ \E i \in 1..Len(loc[Sched].as) :
          /\ loc[Sched].as[i].Alert.generatorURL = "u1"
          /\ loc[Sched].as[i].TTL = -1
    /\ loc[Sched].out = <<>>

\* key k holds an unsilenced alert whose freshness expiry is running, and no upsert
\* of k and no silence request on k is in progress
Fresh(k) ==
    /\ store[k].alert # <<>>
    /\ store[k].silence = "false"
    /\ store[k].ttl > 0
    /\ NoUpsert(k)
    /\ NoSilence(k)

\* the entries goroutine p appends to its list in this step
NewlyListed(p) == SubSeq(loc'[p].as, Len(loc[p].as) + 1, Len(loc'[p].as))

\* C16: a scan that reads alert_urls while key k is fresh goes on to look at k; when
\* it reads the record of a key that is fresh it lists the key with TTL 0; and for
\* every entry with TTL 0 it sends the payloads of the entry's alert.
C16_FreshAlertNotified ==
    [][/\ \A k \in Keys :
            (pc[Sched] = "ga_smembers" /\ pc'[Sched] # "ga_smembers" /\ Fresh(k))
                => k \in loc'[Sched].todo
       /\ \A k \in Keys :
            (pc[Sched] = "ga_hmget" /\ loc'[Sched].cur = k
                /\ loc'[Sched].todo # loc[Sched].todo /\ Fresh(k))
                => NewlyListed(Sched) = <<[Alert |-> store[k].alert[1], TTL |-> 0]>>
       /\ (NotifyStep(Sched) /\ loc[Sched].as[loc[Sched].i].TTL = 0)
                => NewlySent(Sched) = toPayloads(loc[Sched].as[loc[Sched].i].Alert)]_vars

\* C16 witness: an upsert of u1 has been followed by a scan that listed u1 with TTL 0
\* and sent its payloads while u1 was still fresh.
C16_Witness ==
    /\ Fresh("u1")
    /\ pc[Sched] = "ret"
    /\ \E i \in 1..Len(loc[Sched].as) :
          /\ loc[Sched].as[i].Alert.generatorURL = "u1"
          /\ loc[Sched].as[i].TTL = 0
    /\ loc[Sched].out = toPayloads(store["u1"].alert[1])
    /\ loc[Sched].out # <<>>

\* C17: once a store command of an upsert has failed, no later step of that call
\* changes the store or alert_urls.
C17_FailedUpsertAbandoned ==
    [][\A p \in Procs :
         (SaveStep(p) /\ loc[p].failed) => (store' = store /\ urls' = urls)]_vars

\* C17 witness: an upsert whose HMSET failed has returned at once; the key it was for
\* is known and has no record.
C17_Witness ==
    \E p \in Handlers :
        /\ pc[p] = "ret"
        /\ loc[p].op = "save"
        /\ loc[p].failed
        /\ loc[p].url \in urls
        /\ store[loc[p].url] = NoRecord

\* C18: no step of a silence request whose body did not parse changes the store or
\* alert_urls.
C18_UnparsedSilenceSkipped ==
    [][\A p \in Procs :
         (SilenceStep(p) /\ loc[p].bad) => (store' = store /\ urls' = urls)]_vars

\* C18 witness: a silence request whose body did not parse has returned to write its
\* acknowledgement.
C18_Witness ==
    \E p \in Handlers : pc[p] = "ret" /\ loc[p].op = "silence" /\ loc[p].bad

\* no upsert and no silence request is in progress
NoCallMidFlight ==
    \A p \in Procs : loc[p].op \in {"save", "silence"} => pc[p] = "ret"

\* no store command of a call that has not yet returned has failed
NothingFailed == \A p \in Procs : ~loc[p].failed

\* C19: in every state in which no upsert or silence request is in progress and no
\* store command has failed, every record that holds an alert and whose flag is not
\* "true" has an expiry running.
C19_UnsilencedExpires ==
    (NoCallMidFlight /\ NothingFailed)
        => \A k \in Keys :
              (store[k].alert # <<>> /\ store[k].silence # "true") => store[k].ttl > 0

\* C19 witness: an upsert and a silence request on u1 have both returned without store
\* error, nothing else is in progress, and u1 holds an unsilenced alert with its
\* expiry running.
C19_Witness ==
    /\ NoCallMidFlight
    /\ \E p \in Handlers, q \in Handlers :
          /\ Returned(p, "save") /\ loc[p].url = "u1"
          /\ Returned(q, "silence") /\ loc[q].url = "u1"
    /\ store["u1"].alert # <<>>
    /\ store["u1"].silence = "false"
    /\ store["u1"].ttl > 0

\* C20: whenever no call is in progress, every record whose silence flag is "true"
\* holds an alert.
C20_SilencedHasPayload ==
    Quiet => \A k \in Keys : store[k].silence = "true" => store[k].alert # <<>>

\* C20 witness: no call is in progress and u1, silenced, holds its alert.
C20_Witness ==
    /\ Quiet
    /\ store["u1"].silence = "true"
    /\ store["u1"].alert # <<>>
    /\ "u1" \in urls

====
